---- MODULE Spec2Model ----
(***************************************************************************)
(* Model of airthings.py: main() resolves the device list, then polls each *)
(* device with a retry loop of five attempts (construct, connect, read,    *)
(* disconnect; except; finally) and saves the snapshot of a device whose   *)
(* loop ended by break.  The __main__ block maps the way main() ends to    *)
(* the exit code.  One action per statement that calls a collaborator.     *)
(***************************************************************************)
EXTENDS Integers, Sequences, FiniteSets, TLC

\* Longest device list of a config file drawn by Init.
MaxDevices == 2

\* range(5), line 117.
MaxAttempts == 5

\* attempt < 4, line 132.
LastAttemptIndex == 4

VARIABLES
    input,        \* command line and config file of this run
    devices,      \* main's `devices`
    pc,           \* position of control in main / __main__
    di,           \* 1-based index of the current `device` (0 before the loop)
    serial,       \* main's `serial`
    device_name,  \* main's `device_name`
    attempt,      \* main's `attempt`, 0..4
    sensors,      \* main's `sensors`
    waveplus,     \* main's `waveplus`: unbound, or the connection object it names
    pending,      \* what the try statement does once its finally clause is
                  \* done: "none", "break", or the exception on its way out
    exitCode,     \* -1 while running, else the code passed to sys.exit / 0
    exitWhy,      \* "", "completed", "interrupt" or "error"
    \* history of the current device (reset by NextDevice)
    nCtor,        \* WavePlusPlus(serial) calls: the attempts started
    nConn,        \* connect() calls
    nRead,        \* read() calls
    nSleep,       \* sleep(5) calls
    nCtorRaise,   \* WavePlusPlus(serial) calls that raised an Exception
    nConnRaise,   \* connect() calls that raised an Exception
    firstSnap,    \* number of the first attempt whose read() returned a
                  \* non-empty snapshot, 0 while there is none
    discRaised,   \* some disconnect() raised an Exception
    \* history of the current attempt (reset by Construct)
    created,      \* the connection object this attempt created, if any
    readRes,      \* what read() returned in this attempt: "none", "empty" or
                  \* "snap"; "unread" while it has not returned
    discLog,      \* the disconnect() calls, in order: [conn, outcome]
    attLog,       \* the failure log entries of this attempt, in order
    usedConns,    \* the connection objects connect() / read() were called on
    \* history of the run
    acq,          \* per polled device, how its loop ended: [outcome, attempts]
    writes,       \* the file writes performed: [dev, content, status]
    giveups       \* indices of the devices the giving-up warning was logged for

vars == << input, devices, pc, di, serial, device_name, attempt, sensors,
           waveplus, pending, exitCode, exitWhy, nCtor, nConn, nRead, nSleep,
           nCtorRaise, nConnRaise, firstSnap, discRaised, created, readRes, discLog, attLog, usedConns, acq,
           writes, giveups >>

attemptHist == << created, readRes, discLog, attLog, usedConns >>
deviceHist == << nCtor, nConn, nRead, nSleep, nCtorRaise, nConnRaise,
                firstSnap, discRaised >>
runHist == << acq, writes, giveups >>
locals == << serial, device_name, attempt, sensors, waveplus >>

----------------------------------------------------------------------------
\* Values

\* A name that is JSON null / Python None.
NoneName == "None"

\* The unbound local variable `waveplus` ('waveplus' not in locals()).
Unbound == [bound |-> FALSE, dev |-> 0, att |-> 0]

\* The object WavePlusPlus(serial) returns in attempt a of device d.
Conn(d, a) == [bound |-> TRUE, dev |-> d, att |-> a]

\* sensors = None (line 116), or a read() that returned None.
SensorsNone == [kind |-> "none", dev |-> 0, att |-> 0]

\* An empty mapping returned by read().
SensorsEmpty == [kind |-> "empty", dev |-> 0, att |-> 0]

\* The non-empty snapshot read() returns in attempt a of device d.
Snapshot(d, a) == [kind |-> "snap", dev |-> d, att |-> a]

\* Truthy with the test of line 124 never true (`if sensors is True`).
TruthyNever(s) == FALSE

\* Python truth of `sensors` (line 124): None and {} are false.
Truthy(s) == s.kind = "snap"

\* How a call to a collaborator ends: it returns, raises an Exception, or a
\* KeyboardInterrupt is delivered while it runs.
CallOutcomes == {"ok", "raise", "interrupt"}

\* What read() returns when it returns.
ReadKinds == {"none", "empty", "snap"}

----------------------------------------------------------------------------
\* Inputs of a run

\* int(x.strip()) of a token of the --device-serial list; 0 stands for
\* ValueError.
ParseInt(tok) ==
    CASE tok = "1" -> 1
      [] tok = "2" -> 2
      [] tok = "3" -> 3
      [] OTHER -> 0

\* parse_device_serials, lines 59-70: the descriptors, or <<>> standing for
\* the ValueError when some token is no integer.
ParseOk(toks) == \A i \in 1..Len(toks) : ParseInt(toks[i]) # 0
parse_device_serials(toks) ==
    [i \in 1..Len(toks) |->
        [serial |-> ParseInt(toks[i]), hasName |-> TRUE, name |-> NoneName]]

\* The descriptors a config file lists: the first has no "name" key, the
\* others have one.
ConfigDevice(i) ==
    IF i = 1 THEN [serial |-> 11, hasName |-> FALSE, name |-> ""]
    ELSE [serial |-> 10 + i, hasName |-> TRUE, name |-> "Kitchen"]
ConfigDevices(n) == [i \in 1..n |-> ConfigDevice(i)]

\* The --device-serial lists drawn: one serial, a list of two, and a list
\* with a token that is no integer.
CliLists == { << "1" >>, << "2", "3" >>, << "1", "x" >> }

\* cli = <<>>: no --device-serial.  cfg: "absent" (no file), "invalid" (not
\* JSON), "empty" ({}), "nodevices" (a non-empty document without "devices"),
\* "devices" (a document listing cfgDevices).
Inputs ==
    { [cli |-> c, cfg |-> "absent", cfgDevices |-> << >>] : c \in CliLists }
    \cup { [cli |-> << >>, cfg |-> k, cfgDevices |-> << >>] :
             k \in {"absent", "invalid", "empty", "nodevices"} }
    \cup { [cli |-> << >>, cfg |-> "devices", cfgDevices |-> ConfigDevices(n)] :
             n \in 0..MaxDevices }

\* load_config, lines 47-57: TRUE iff the returned document is non-empty.
ConfigLoaded(inp) == inp.cfg \in {"nodevices", "devices"}

\* config.get('devices', []), line 98.
ConfigGetDevices(inp) == IF inp.cfg = "devices" THEN inp.cfgDevices ELSE << >>

\* device.get('name', f"Device-{serial}"), line 112: the default is used only
\* when the key is missing.
Synthesized(s) == [kind |-> "synth", serial |-> s, text |-> "Device-"]
Given(n) == [kind |-> "given", serial |-> 0, text |-> n]
DeviceGetName(d) == IF d.hasName THEN Given(d.name) ELSE Synthesized(d.serial)

NoName == [kind |-> "unset", serial |-> 0, text |-> ""]

----------------------------------------------------------------------------
Init ==
    /\ input \in Inputs
    /\ devices = << >>
    /\ pc = "main"
    /\ di = 0
    /\ serial = 0
    /\ device_name = NoName
    /\ attempt = 0
    /\ sensors = SensorsNone
    /\ waveplus = Unbound
    /\ pending = "none"
    /\ exitCode = -1
    /\ exitWhy = ""
    /\ nCtor = 0 /\ nConn = 0 /\ nRead = 0 /\ nSleep = 0
    /\ nCtorRaise = 0 /\ nConnRaise = 0 /\ firstSnap = 0
    /\ discRaised = FALSE
    /\ created = Unbound
    /\ readRes = "unread"
    /\ discLog = << >>
    /\ attLog = << >>
    /\ usedConns = {}
    /\ acq = << >>
    /\ writes = << >>
    /\ giveups = << >>

\* __main__, lines 158-166: the exit code for the way main() ended.
ExitCodeFor(why) ==
    CASE why = "completed" -> 0
      [] why = "interrupt" -> 0
      [] OTHER -> 1

\* main() ends: it returned, or an exception left it.
Exit(why) ==
    /\ pc' = "exit"
    /\ exitWhy' = why
    /\ exitCode' = ExitCodeFor(why)

\* main, lines 81-107: resolve the device list.
Resolve ==
    /\ pc = "main"
    /\ IF input.cli # << >>
       THEN IF ParseOk(input.cli)
            THEN /\ devices' = parse_device_serials(input.cli)
                 /\ pc' = "loop"
                 /\ UNCHANGED << exitCode, exitWhy >>
            ELSE /\ Exit("error")
                 /\ UNCHANGED devices
       ELSE IF ConfigLoaded(input)
            THEN /\ devices' = ConfigGetDevices(input)
                 /\ pc' = "loop"
                 /\ UNCHANGED << exitCode, exitWhy >>
            ELSE /\ Exit("error")
                 /\ UNCHANGED devices
    /\ UNCHANGED << input, di, locals, pending, attemptHist, deviceHist,
                    runHist >>

\* for device in devices, lines 110-116: the next device, or the end of main.
NextDevice ==
    /\ pc = "loop"
    /\ IF di < Len(devices)
       THEN /\ di' = di + 1
            /\ serial' = devices[di + 1].serial
            /\ device_name' = DeviceGetName(devices[di + 1])
            /\ sensors' = SensorsNone
            /\ attempt' = 0
            /\ pc' = "ctor"
            /\ nCtor' = 0 /\ nConn' = 0 /\ nRead' = 0 /\ nSleep' = 0
            /\ nCtorRaise' = 0 /\ nConnRaise' = 0 /\ firstSnap' = 0
            /\ discRaised' = FALSE
            /\ UNCHANGED << exitCode, exitWhy, waveplus >>
       ELSE /\ Exit("completed")
            /\ UNCHANGED << di, locals, deviceHist >>
    /\ UNCHANGED << input, devices, pending, attemptHist, runHist >>

----------------------------------------------------------------------------
\* One attempt of the retry loop, lines 117-140

\* except Exception (line 130) catches an Exception, not a KeyboardInterrupt.
CaughtByExcept(o) == o = "raise"

\* CaughtByBareExcept with the cleanup call outside any try.
CaughtByNothing(o) == FALSE

\* The bare except of line 139 catches everything raised.
CaughtByBareExcept(o) == o \in {"raise", "interrupt"}

\* if attempt < 4, line 132.
HandlerSleeps(att) == att < LastAttemptIndex

\* InLocals with a guard that never holds: the cleanup call is skipped.
InLocalsNever(w) == FALSE

\* 'waveplus' in locals(), line 137.
InLocals(w) == w.bound

\* LoopHasNext for a loop over range(4).
LoopHasNextShort(att) == att + 1 < MaxAttempts - 1

\* LoopHasNext for a loop that retries without a bound (`while True`).
LoopHasNextAlways(att) == TRUE

\* for attempt in range(5): another value follows att.
LoopHasNext(att) == att + 1 < MaxAttempts

\* A call in the try body raised o: the except clause takes it if it catches
\* it, otherwise the finally clause runs and o goes on.
Raised(o) ==
    IF CaughtByExcept(o)
    THEN /\ pc' = "except"
         /\ UNCHANGED pending
    ELSE /\ pc' = "finally"
         /\ pending' = o

\* waveplus = WavePlusPlus(serial), line 119: the first statement of an attempt.
Construct ==
    /\ pc = "ctor"
    /\ nCtor' = nCtor + 1
    /\ readRes' = "unread"
    /\ discLog' = << >>
    /\ attLog' = << >>
    /\ usedConns' = {}
    /\ \E o \in CallOutcomes :
        /\ nCtorRaise' = IF o = "raise" THEN nCtorRaise + 1 ELSE nCtorRaise
        /\ IF o = "ok"
           THEN /\ waveplus' = Conn(di, attempt)
                /\ created' = Conn(di, attempt)
                /\ pc' = "connect"
                /\ UNCHANGED pending
           ELSE /\ created' = Unbound
                /\ Raised(o)
                /\ UNCHANGED waveplus
    /\ UNCHANGED << input, devices, di, serial, device_name, attempt, sensors,
                    exitCode, exitWhy, nConn, nRead, nSleep, nConnRaise,
                    firstSnap, discRaised, runHist >>

\* waveplus.connect(), line 120.
Connect ==
    /\ pc = "connect"
    /\ nConn' = nConn + 1
    /\ usedConns' = usedConns \cup {waveplus}
    /\ \E o \in CallOutcomes :
        /\ nConnRaise' = IF o = "raise" THEN nConnRaise + 1 ELSE nConnRaise
        /\ IF o = "ok"
           THEN /\ pc' = "read"
                /\ UNCHANGED pending
           ELSE Raised(o)
    /\ UNCHANGED << input, devices, di, locals, exitCode, exitWhy, nCtor,
                    nRead, nSleep, nCtorRaise, firstSnap, discRaised, created,
                    readRes, discLog, attLog, runHist >>

\* The value read() returns, by its kind.
ReadValue(k, d, a) ==
    CASE k = "none" -> SensorsNone
      [] k = "empty" -> SensorsEmpty
      [] OTHER -> Snapshot(d, a)

\* sensors = waveplus.read(), line 121: the assignment happens only when
\* read() returns.
Read ==
    /\ pc = "read"
    /\ nRead' = nRead + 1
    /\ usedConns' = usedConns \cup {waveplus}
    /\ \E o \in CallOutcomes :
        IF o = "ok"
        THEN /\ \E k \in ReadKinds :
                  /\ sensors' = ReadValue(k, di, attempt)
                  /\ readRes' = k
                  /\ firstSnap' = IF k = "snap" /\ firstSnap = 0
                                  THEN attempt + 1 ELSE firstSnap
             /\ pc' = "disconnect"
             /\ UNCHANGED pending
        ELSE /\ Raised(o)
             /\ UNCHANGED << sensors, readRes, firstSnap >>
    /\ UNCHANGED << input, devices, di, serial, device_name, attempt,
                    waveplus, exitCode, exitWhy, nCtor, nConn, nSleep,
                    nCtorRaise, nConnRaise, discRaised, created, discLog,
                    attLog, runHist >>

\* waveplus.disconnect() in the try body and the if that follows it,
\* lines 122-128: break on a true `sensors`, else the empty-result warning.
Disconnect ==
    /\ pc = "disconnect"
    /\ \E o \in CallOutcomes :
        /\ discLog' = Append(discLog, [conn |-> waveplus, outcome |-> o])
        /\ discRaised' = (discRaised \/ o = "raise")
        /\ IF o = "ok"
           THEN /\ IF Truthy(sensors)
                   THEN /\ pending' = "break"
                        /\ UNCHANGED attLog
                   ELSE /\ attLog' = Append(attLog, "warning")
                        /\ UNCHANGED pending
                /\ pc' = "finally"
           ELSE /\ Raised(o)
                /\ UNCHANGED attLog
    /\ UNCHANGED << input, devices, di, locals, exitCode, exitWhy, nCtor,
                    nConn, nRead, nSleep, nCtorRaise, nConnRaise, firstSnap,
                    created, readRes, usedConns, runHist >>

\* except Exception as e, lines 130-132: log the error, then sleep unless
\* this is the last attempt.
Except ==
    /\ pc = "except"
    /\ attLog' = Append(attLog, "error")
    /\ pc' = IF HandlerSleeps(attempt) THEN "sleep" ELSE "finally"
    /\ UNCHANGED << input, devices, di, locals, pending, exitCode, exitWhy,
                    deviceHist, created, readRes, discLog, usedConns,
                    runHist >>

\* sleep(5), line 133, inside the except clause: an interrupt leaves it
\* through the finally clause.
Sleep ==
    /\ pc = "sleep"
    /\ nSleep' = nSleep + 1
    /\ pc' = "finally"
    /\ \E o \in {"ok", "interrupt"} :
        pending' = IF o = "ok" THEN pending ELSE o
    /\ UNCHANGED << input, devices, di, locals, exitCode, exitWhy, nCtor,
                    nConn, nRead, nCtorRaise, nConnRaise, firstSnap,
                    discRaised, attemptHist, runHist >>

\* What follows the finally clause, p being what was pending when it ended:
\* an exception goes on and leaves main, a break leaves the loop for the
\* save, otherwise the loop takes its next value or, exhausted, runs its
\* else clause.
AfterFinally(p) ==
    CASE p = "interrupt" ->
            /\ Exit("interrupt")
            /\ UNCHANGED << attempt, acq >>
      [] p = "raise" ->
            /\ Exit("error")
            /\ UNCHANGED << attempt, acq >>
      [] p = "break" ->
            /\ pc' = "save"
            /\ acq' = Append(acq, [outcome |-> "success", attempts |-> attempt + 1])
            /\ UNCHANGED << attempt, exitCode, exitWhy >>
      [] OTHER ->
            /\ IF LoopHasNext(attempt)
               THEN /\ attempt' = attempt + 1
                    /\ pc' = "ctor"
               ELSE /\ pc' = "else"
                    /\ UNCHANGED attempt
            /\ UNCHANGED << acq, exitCode, exitWhy >>

\* finally, lines 134-140: disconnect whatever `waveplus` names; what the
\* call raises is caught by the bare except and dropped.
Finally ==
    /\ pc = "finally"
    /\ IF InLocals(waveplus)
       THEN \E o \in CallOutcomes :
            /\ discLog' = Append(discLog, [conn |-> waveplus, outcome |-> o])
            /\ discRaised' = (discRaised \/ o = "raise")
            /\ IF o = "ok" \/ CaughtByBareExcept(o)
               THEN AfterFinally(pending)
               ELSE AfterFinally(o)
       ELSE /\ UNCHANGED << discLog, discRaised >>
            /\ AfterFinally(pending)
    /\ pending' = "none"
    /\ UNCHANGED << input, devices, di, serial, device_name, sensors,
                    waveplus, nCtor, nConn, nRead, nSleep, nCtorRaise,
                    nConnRaise, firstSnap, created, readRes, attLog,
                    usedConns, writes, giveups >>

----------------------------------------------------------------------------
\* After the retry loop, lines 142-156

\* GiveUp without its `continue`: control falls through to the save.
GiveUpFallsThrough ==
    /\ pc = "else"
    /\ giveups' = Append(giveups, di)
    /\ acq' = Append(acq, [outcome |-> "exhausted", attempts |-> attempt + 1])
    /\ pc' = "save"
    /\ UNCHANGED << input, devices, di, locals, pending, exitCode, exitWhy,
                    deviceHist, attemptHist, writes >>

\* GiveUp with `break` for `continue`: the device loop ends.
GiveUpBreaks ==
    /\ pc = "else"
    /\ giveups' = Append(giveups, di)
    /\ acq' = Append(acq, [outcome |-> "exhausted", attempts |-> attempt + 1])
    /\ Exit("completed")
    /\ UNCHANGED << input, devices, di, locals, pending, deviceHist,
                    attemptHist, writes >>

\* The else clause of the for loop, lines 142-144: warn and continue.
GiveUp ==
    /\ pc = "else"
    /\ giveups' = Append(giveups, di)
    /\ acq' = Append(acq, [outcome |-> "exhausted", attempts |-> attempt + 1])
    /\ pc' = "loop"
    /\ UNCHANGED << input, devices, di, locals, pending, exitCode, exitWhy,
                    deviceHist, attemptHist, writes >>

\* WriteCaught with the write outside any try.
WriteNotCaught(o) == FALSE

\* except Exception of line 155 around open / json.dump.
WriteCaught(o) == o = "raise"

\* Save data, lines 146-156: a failure of the write is caught and logged,
\* and the device loop goes on.
Save ==
    /\ pc = "save"
    /\ \E o \in CallOutcomes :
        /\ writes' = Append(writes, [dev |-> di, content |-> sensors, status |-> o])
        /\ IF o = "ok" \/ WriteCaught(o)
           THEN /\ pc' = "loop"
                /\ UNCHANGED << exitCode, exitWhy >>
           ELSE Exit(IF o = "interrupt" THEN "interrupt" ELSE "error")
    /\ UNCHANGED << input, devices, di, locals, pending, deviceHist,
                    attemptHist, acq, giveups >>

----------------------------------------------------------------------------
Next ==
    \/ Resolve
    \/ NextDevice
    \/ Construct
    \/ Connect
    \/ Read
    \/ Disconnect
    \/ Except
    \/ Sleep
    \/ Finally
    \/ GiveUp
    \/ Save

Spec == Init /\ [][Next]_vars

\* The run is one sequential control flow: a step that can be taken is taken.
FairSpec == Spec /\ WF_vars(Next)

TypeOK ==
    /\ pc \in {"main", "loop", "ctor", "connect", "read", "disconnect",
               "except", "sleep", "finally", "else", "save", "exit"}
    /\ attempt \in 0..(MaxAttempts - 1)
    /\ di \in 0..Len(devices)
    /\ pending \in {"none", "break", "raise", "interrupt"}
    /\ exitCode \in {-1, 0, 1}

----------------------------------------------------------------------------
\* Properties

\* The last attempt of the current device has run to the end of its finally
\* clause and the per-attempt history describes it.
AttemptFinished == pc \in {"save", "else"} \/ (pc = "ctor" /\ attempt > 0)

\* Number of elements of the sequence q that satisfy Test.
Count(q, Test(_)) == Cardinality({ i \in 1..Len(q) : Test(q[i]) })

WritesFor(d) == LET T(w) == w.dev = d IN Count(writes, T)
GiveUpsFor(d) == LET T(g) == g = d IN Count(giveups, T)

\* C1 as stated: when the loop ends by break at attempt k and no disconnect
\* raised, exactly k attempts, k connect() calls and k read() calls were made.
C1_ExactlyKConnectsAndReads ==
    (pc = "save" /\ ~discRaised) =>
        /\ nCtor = firstSnap
        /\ nConn = firstSnap
        /\ nRead = firstSnap

\* C1 amended: once read() has returned a non-empty snapshot in attempt k and
\* no disconnect has raised, the loop stops there: exactly k attempts were
\* started and none follows; connect() was called once in each attempt whose
\* constructor did not raise and read() once in each attempt whose connect()
\* did not raise.
C1_EarlyExit ==
    (di >= 1 /\ firstSnap > 0 /\ ~discRaised) =>
        /\ nCtor = firstSnap
        /\ attempt + 1 = firstSnap
        /\ pc \in {"disconnect", "finally", "save", "loop", "exit"}
        /\ nConn = firstSnap - nCtorRaise
        /\ nRead = nConn - nConnRaise
        /\ (pc = "save" => sensors = Snapshot(di, firstSnap - 1))

C1_Witness ==
    /\ pc = "save"
    /\ ~discRaised
    /\ firstSnap = MaxAttempts
    /\ nCtorRaise = 1
    /\ nConnRaise = 1
    /\ nRead = MaxAttempts - 2

\* C2: when no read() of the device returned a non-empty snapshot, the loop
\* ends only in its else clause, after exactly five attempts, the device is
\* recorded as given up and no file is written for it.
C2_Exhaustion ==
    (di >= 1 /\ firstSnap = 0) =>
        /\ pc # "save"
        /\ WritesFor(di) = 0
        /\ (pc = "else" => nCtor = MaxAttempts)
        /\ (pc = "loop" =>
                /\ Len(acq) = di
                /\ acq[di] = [outcome |-> "exhausted", attempts |-> MaxAttempts]
                /\ GiveUpsFor(di) = 1)

C2_Witness ==
    /\ pc = "loop"
    /\ di >= 1
    /\ firstSnap = 0
    /\ nRead >= 2
    /\ nCtorRaise >= 1
    /\ nConnRaise >= 1
    /\ acq[di].outcome = "exhausted"

\* C3 as stated: every failed attempt that is not the last is followed by a
\* sleep before the next attempt begins, so attempt i+1 begins after i sleeps
\* and an exhausted loop has slept four times.
C3_BackoffAfterEveryFailure ==
    /\ (pc = "ctor" => nSleep = attempt)
    /\ (pc = "else" => nSleep = LastAttemptIndex)

\* C4 as stated: in an attempt that created a connection, disconnect() is
\* called exactly once, on that connection.
C4_CleanupExactlyOnce ==
    (AttemptFinished /\ created.bound) =>
        /\ Len(discLog) = 1
        /\ discLog[1].conn = created

\* C5 as stated: an attempt whose connect() and read() completed and whose
\* read() returned a non-empty snapshot is a success whatever its disconnect()
\* calls did: it ends the loop, no further attempt is made, and that
\* snapshot is the one on its way to the file.
C5_DisconnectFailureNeutral ==
    (AttemptFinished /\ readRes = "snap") =>
        /\ pc = "save"
        /\ attLog = << >>
        /\ sensors = Snapshot(di, attempt)

\* C6: an Exception raised by a disconnect() call never leaves the retry
\* loop: the run ends with an error only before the first device, never
\* after a disconnect() raised, and a run that completes has gone through
\* every device.
C6_DisconnectNeverEscalated ==
    /\ (exitWhy = "error" => di = 0 /\ ~discRaised)
    /\ ((\E i \in 1..Len(discLog) : discLog[i].outcome = "raise") =>
            exitWhy # "error")
    /\ (exitWhy = "completed" => Len(acq) = Len(devices))

C6_Witness ==
    /\ pc = "loop"
    /\ di = 1
    /\ Len(devices) = 2
    /\ Len(discLog) = 2
    /\ discLog[1].outcome = "raise"
    /\ discLog[2].outcome = "raise"

\* C8: a write that fails with an Exception does not end the run with an
\* error; when the run completes every device has been polled and every
\* later device whose loop ended by break has its own write.
C8_WriteFailureContained ==
    \A k \in 1..Len(writes) :
        writes[k].status = "raise" =>
            /\ exitWhy # "error"
            /\ (pc = "save" => di > writes[k].dev)
            /\ (exitWhy = "completed" =>
                    /\ Len(acq) = Len(devices)
                    /\ \A j \in (writes[k].dev + 1)..Len(devices) :
                          acq[j].outcome = "success" => WritesFor(j) = 1)

C8_Witness ==
    /\ exitWhy = "completed"
    /\ Len(writes) = 2
    /\ writes[1] = [dev |-> 1, content |-> Snapshot(1, 0), status |-> "raise"]
    /\ writes[2].dev = 2
    /\ writes[2].status = "ok"

\* C9: a run that completes exits with code 0, has performed exactly one
\* file write for each device whose loop ended by break and none for a
\* device whose loop was exhausted, and has logged exactly one giving-up
\* warning for each exhausted device and none for the others.
C9_OutcomeAccounting ==
    (pc = "exit" /\ exitWhy = "completed") =>
        /\ exitCode = 0
        /\ Len(acq) = Len(devices)
        /\ Len(writes) + Len(giveups) = Len(devices)
        /\ \A d \in 1..Len(devices) :
              /\ acq[d].outcome = "success" =>
                    /\ WritesFor(d) = 1
                    /\ GiveUpsFor(d) = 0
                    /\ acq[d].attempts \in 1..MaxAttempts
              /\ acq[d].outcome = "exhausted" =>
                    /\ WritesFor(d) = 0
                    /\ GiveUpsFor(d) = 1
                    /\ acq[d].attempts = MaxAttempts

C9_Witness ==
    /\ pc = "exit"
    /\ exitWhy = "completed"
    /\ exitCode = 0
    /\ acq = << [outcome |-> "success", attempts |-> 3],
                [outcome |-> "exhausted", attempts |-> MaxAttempts] >>
    /\ Len(writes) = 1
    /\ writes[1].dev = 1
    /\ giveups = << 2 >>

\* C10 as stated, for the runs without a KeyboardInterrupt: every connect(),
\* read() and disconnect() call of an attempt is made on the connection
\* object that attempt created.
C10_NoConnectionReuse ==
    (pending # "interrupt" /\ exitWhy # "interrupt") =>
        /\ \A c \in usedConns : c = created
        /\ \A i \in 1..Len(discLog) :
              discLog[i].outcome # "interrupt" => discLog[i].conn = created

\* C7: under the sequential scheduling of the run, the run comes to its end
\* and, unless a KeyboardInterrupt ended it, the device loop has by then
\* reached every device of the list and finished its retry loop, an
\* exhausted device included; the loop takes the devices one by one in list
\* order.
C7_EveryDevicePolled ==
    /\ <>(/\ pc = "exit"
          /\ exitWhy # "interrupt" =>
                 (di = Len(devices) /\ Len(acq) = Len(devices)))
    /\ [][di' = di \/ (di' = di + 1 /\ serial' = devices[di + 1].serial)]_vars

C7_Witness ==
    /\ di = 2
    /\ pc = "connect"
    /\ acq[1].outcome = "exhausted"


\* C11 as stated: once a KeyboardInterrupt has been delivered during a call
\* (a disconnect() of this attempt, any call of the try body, the sleep or
\* the write), the run is on its way out: the interrupt is pending while the
\* finally clause runs, and then the process has exited with code 0; no
\* further attempt is started and no further device is polled.
C11_InterruptStopsRun ==
    (\/ \E i \in 1..Len(discLog) : discLog[i].outcome = "interrupt"
     \/ \E k \in 1..Len(writes) : writes[k].status = "interrupt"
     \/ pending = "interrupt")
    => \/ (pc = "finally" /\ pending = "interrupt")
       \/ (pc = "exit" /\ exitWhy = "interrupt" /\ exitCode = 0)

\* The run has no device to poll: no --device-serial list, and the config
\* file is absent, unreadable, empty, or has an empty or missing device list.
NoDevicesResolvable ==
    /\ input.cli = << >>
    /\ \/ input.cfg \in {"absent", "invalid", "empty", "nodevices"}
       \/ (input.cfg = "devices" /\ input.cfgDevices = << >>)

\* C12 as stated: a run that resolves no devices at all ends with a
\* configuration error and exit code 1.
C12_NoDevicesIsFatal ==
    (pc = "exit" /\ NoDevicesResolvable) => (exitWhy = "error" /\ exitCode = 1)

\* C13 as stated: the display name of the current device is the synthesized
\* Device-<serial> when its descriptor has no "name" key or a null name, and
\* the descriptor's name otherwise.
C13_DisplayNameDefault ==
    (di >= 1) =>
        device_name =
            IF ~devices[di].hasName \/ devices[di].name = NoneName
            THEN Synthesized(devices[di].serial)
            ELSE Given(devices[di].name)

\* C14 as stated: sleep(5) is never called in the fifth attempt nor in an
\* attempt whose read() returned a non-empty snapshot, and a device sees at
\* most four sleeps.
C14_NoSleepWhereNoneIsDue ==
    /\ nSleep <= LastAttemptIndex
    /\ (pc = "sleep" => attempt < LastAttemptIndex /\ readRes # "snap")

\* C15 as stated: when the retry-delay sleep of a failed attempt begins, a
\* disconnect() has already been called on the connection the attempt
\* created, so no connection is open during the sleep.
C15_CleanupBeforeBackoff ==
    (pc = "sleep" /\ created.bound) =>
        \E i \in 1..Len(discLog) : discLog[i].conn = created

\* C16: whenever no attempt is under way (the next attempt is about to
\* create its connection, the snapshot is about to be written, the device is
\* about to be given up, the loop is between devices, or the run has ended),
\* a disconnect() has been called on the connection the last attempt
\* created; so the only connection that can be un-released is the one of
\* the attempt under way.
C16_ReleasedBeforeMovingOn ==
    (pc \in {"ctor", "else", "save", "loop", "exit"} /\ created.bound) =>
        \E i \in 1..Len(discLog) : discLog[i].conn = created

C16_Witness ==
    /\ pc = "ctor"
    /\ attempt > 0
    /\ created.bound
    /\ readRes = "unread"
    /\ Len(discLog) = 1
    /\ discLog[1].conn = created

\* C17 as stated: a finished attempt has logged nothing when its read()
\* returned a non-empty snapshot, exactly the empty-result warning when
\* connect() and read() completed and read() returned an empty result, and
\* exactly the error entry when the constructor, connect() or read() raised.
C17_FailureClassification ==
    AttemptFinished =>
        attLog = CASE readRes = "snap" -> << >>
                   [] readRes \in {"none", "empty"} -> << "warning" >>
                   [] OTHER -> << "error" >>

\* C18: every file write of a device carries the snapshot read() returned in
\* the last attempt made for that device, the attempt that ended its loop by
\* break; a device whose loop was exhausted has no write, even when one of
\* its attempts had read a non-empty snapshot.
C18_PersistedSnapshotNotStale ==
    /\ \A k \in 1..Len(writes) :
          /\ writes[k].dev <= Len(acq)
          /\ acq[writes[k].dev].outcome = "success"
          /\ writes[k].content =
                Snapshot(writes[k].dev, acq[writes[k].dev].attempts - 1)
    /\ (pc = "save" => readRes = "snap" /\ sensors = Snapshot(di, attempt))
    /\ \A d \in 1..Len(acq) : acq[d].outcome = "exhausted" => WritesFor(d) = 0

C18_Witness ==
    /\ pc = "loop"
    /\ di = 2
    /\ writes = << [dev |-> 1, content |-> Snapshot(1, 1), status |-> "ok"] >>
    /\ acq[2].outcome = "exhausted"
    /\ firstSnap > 0
    /\ sensors.kind = "snap"

\* C19: under the sequential scheduling of the run, the run terminates; at
\* every moment each device polled so far has had at least one and at most
\* five attempts and at most one file write, and the device under way has
\* had at most five attempts.
C19_BoundedTermination ==
    /\ <>(pc = "exit")
    /\ [](/\ nCtor <= MaxAttempts
          /\ \A d \in 1..Len(acq) :
                /\ acq[d].attempts \in 1..MaxAttempts
                /\ WritesFor(d) <= 1)

C19_Witness ==
    /\ pc = "exit"
    /\ exitWhy = "completed"
    /\ Len(acq) = 2
    /\ acq[1].attempts = 1
    /\ acq[2].attempts = MaxAttempts
    /\ Len(writes) = 1

====
